---- MODULE Spec2Model ----
(***************************************************************************)
(* State-machine model of the FDTD1D solver of src/fdtd1d.py.              *)
(*                                                                         *)
(* Numbers.  The solver computes in floating point; the model computes in  *)
(* exact rational arithmetic (a rational is a normalised pair <<n, d>>,    *)
(* d > 0) and complex numbers are pairs of rationals.  Rounding is not     *)
(* modelled.                                                               *)
(*                                                                         *)
(* Arrays.  A numpy array is a sequence; Python index i is position i+1.   *)
(* Slices, broadcasting and slice assignment follow numpy: an operation    *)
(* on operands of lengths n and m is defined when n = m or one of them is  *)
(* 1, and raises ValueError otherwise.                                     *)
(***************************************************************************)
EXTENDS Integers, Sequences, FiniteSets, TLC

----------------------------------------------------------------------------
(* Bounds of the model *)

\* Number of E-nodes of the largest grid explored.
MaxN == 5
\* Number of step calls (direct or through run_until) explored per run.
MaxSteps == 2
\* Number of configuration calls explored per run.
MaxConfig == 2

----------------------------------------------------------------------------
(* Exact rational arithmetic *)

Abs(x) == IF x < 0 THEN -x ELSE x
Min(a, b) == IF a < b THEN a ELSE b
Max(a, b) == IF a > b THEN a ELSE b

RECURSIVE GCD(_, _)
GCD(a, b) == IF b = 0 THEN a ELSE GCD(b, a % b)

Rat(n, d) ==
    LET s == IF d < 0 THEN -1 ELSE 1
        g == GCD(Abs(n), Abs(d))
    IN  <<(s * n) \div g, (s * d) \div g>>

R0 == <<0, 1>>
R1 == <<1, 1>>
R2 == <<2, 1>>
RInt(n) == <<n, 1>>
\* Sums over the least common denominator and products with cross
\* cancellation, so that intermediate integers stay as small as the result.
RAdd(x, y) ==
    LET g == GCD(x[2], y[2])
    IN  Rat(x[1] * (y[2] \div g) + y[1] * (x[2] \div g), (x[2] \div g) * y[2])
RSub(x, y) == RAdd(x, <<-y[1], y[2]>>)
RMul(x, y) ==
    LET g1 == GCD(Abs(x[1]), y[2])
        g2 == GCD(Abs(y[1]), x[2])
    IN  IF x[1] = 0 \/ y[1] = 0 THEN <<0, 1>>
        ELSE <<(x[1] \div g1) * (y[1] \div g2), (x[2] \div g2) * (y[2] \div g1)>>
RDiv(x, y) == RMul(x, IF y[1] < 0 THEN <<-y[2], -y[1]>> ELSE <<y[2], y[1]>>)
RNeg(x) == <<-x[1], x[2]>>
RLess(x, y) == x[1] * y[2] < y[1] * x[2]
RLeq(x, y) == x[1] * y[2] <= y[1] * x[2]

\* Python int(x) of a float: truncation toward zero.
PyInt(x) == IF x[1] >= 0 THEN x[1] \div x[2] ELSE -((-x[1]) \div x[2])
\* Mathematical floor.
Floor(x) == x[1] \div x[2]

(* Complex numbers <<re, im>> *)
Cx(re, im) == <<re, im>>
CReal(z) == z[1]
COfReal(x) == <<x, R0>>
CAdd(z, w) == <<RAdd(z[1], w[1]), RAdd(z[2], w[2])>>
CSub(z, w) == <<RSub(z[1], w[1]), RSub(z[2], w[2])>>
CMul(z, w) == <<RSub(RMul(z[1], w[1]), RMul(z[2], w[2])),
                RAdd(RMul(z[1], w[2]), RMul(z[2], w[1]))>>
CScale(z, x) == <<RMul(z[1], x), RMul(z[2], x)>>
CDiv(z, w) ==
    LET m == RAdd(RMul(w[1], w[1]), RMul(w[2], w[2]))
        n == CMul(z, <<w[1], RNeg(w[2])>>)
    IN  <<RDiv(n[1], m), RDiv(n[2], m)>>
C0z == <<R0, R0>>
C1z == <<R1, R0>>

RECURSIVE RSum(_)
RSum(s) == IF s = <<>> THEN R0 ELSE RAdd(Head(s), RSum(Tail(s)))

----------------------------------------------------------------------------
(* numpy arrays: slices, broadcasting, slice assignment *)

\* Python's normalisation of a slice bound against a length.
SliceBound(i, len) == IF i < 0 THEN Max(i + len, 0) ELSE Min(i, len)
\* arr[a:b]
Slice(arr, a, b) ==
    LET lo == SliceBound(a, Len(arr))
        hi == SliceBound(b, Len(arr))
    IN  IF hi <= lo THEN <<>> ELSE SubSeq(arr, lo + 1, hi)
\* The Python indices arr[a:b] covers.
SliceIdx(len, a, b) ==
    LET lo == SliceBound(a, len)
        hi == SliceBound(b, len)
    IN  {i \in 0..(len - 1) : lo <= i /\ i < hi}

\* An array-valued expression: its value, or the broadcast failure.
Arr(v) == [ok |-> TRUE, v |-> v]
Bad == [ok |-> FALSE, v |-> <<>>]
BShape(n, m) == IF n = m THEN n ELSE IF n = 1 THEN m ELSE IF m = 1 THEN n ELSE -1
At(v, i) == IF Len(v) = 1 THEN v[1] ELSE v[i]
Bin(F(_, _), a, b) ==
    IF ~a.ok \/ ~b.ok THEN Bad
    ELSE LET L == BShape(Len(a.v), Len(b.v))
         IN  IF L < 0 THEN Bad
             ELSE Arr([i \in 1..L |-> F(At(a.v, i), At(b.v, i))])
Map(F(_), a) == IF ~a.ok THEN Bad ELSE Arr([i \in 1..Len(a.v) |-> F(a.v[i])])

\* arr[a:b] = val; ok is FALSE when val cannot be broadcast into the slice.
SetSlice(arr, a, b, val) ==
    LET lo == SliceBound(a, Len(arr))
        hi == SliceBound(b, Len(arr))
        n  == IF hi <= lo THEN 0 ELSE hi - lo
    IN  IF ~val.ok \/ ~(Len(val.v) = n \/ Len(val.v) = 1) THEN Bad
        ELSE Arr([i \in 1..Len(arr) |->
                    IF lo < i /\ i <= lo + n THEN At(val.v, i - lo) ELSE arr[i]])
\* arr[a:b] = scalar
FillSlice(arr, a, b, x) ==
    LET idx == SliceIdx(Len(arr), a, b)
    IN  [i \in 1..Len(arr) |-> IF (i - 1) \in idx THEN x ELSE arr[i]]

\* np.searchsorted(xE, x): number of coordinates strictly below x.
SearchSorted(xE, x) == Cardinality({i \in 1..Len(xE) : RLess(xE[i], x)})

----------------------------------------------------------------------------
(* Module-level constants of the solver *)

MU0 == RInt(1)
EPS0 == RInt(1)
\* C0 = 1/sqrt(MU0*EPS0); with MU0 = EPS0 = 1 the square root is exact.
C0 == RDiv(R1, RMul(MU0, EPS0))

\* Number of poles of the dispersive model: range(6), J of shape (6, N).
NPOLES == 6

\* The pole data (residues c_p, poles a_p).  The silver fit of the source
\* (magnitudes around 1e-19 .. 1e-16) is not representable exactly in bounded
\* integers; the model carries six small exact complex stand-ins.  Only the
\* formulas that consume them are modelled, not their values.
c_silver ==
    << Cx(RInt(0), RInt(1)), Cx(RInt(1), RInt(0)), Cx(RInt(0), RInt(-2)),
       Cx(RInt(0), RInt(2)), Cx(RInt(-1), RInt(0)), Cx(RInt(0), RInt(-1)) >>
a_silver ==
    << Cx(RInt(0), RInt(0)), Cx(RInt(0), RInt(0)), Cx(RInt(2), RInt(2)),
       Cx(RInt(2), RInt(-2)), Cx(RInt(0), RInt(0)), Cx(RInt(0), RInt(0)) >>

\* The waveform callbacks explored: sourceFunction(x, t).
Waveforms == {"zero", "time"}
Waveform(wf, x, t) == IF wf = "zero" THEN R0 ELSE t

----------------------------------------------------------------------------
(* FDTD1D.__init__ *)

\* np.zeros_like / np.ones_like
Zeros(n) == [i \in 1..n |-> R0]
Ones(n) == [i \in 1..n |-> R1]
\* Value of an attribute that has not been assigned yet.
Unset == <<0, 0>>

\* The grids explored: xE = 0, 1, ..., n-1.
GridOf(n) == [i \in 1..n |-> RInt(i - 1)]

FDTD1D(xE, bounds) ==
    LET n == Len(xE) IN
    [ xE |-> xE,
      xH |-> [i \in 1..(n - 1) |-> RDiv(RAdd(xE[i], xE[i + 1]), R2)],
      dx |-> RSub(xE[2], xE[1]),
      bounds |-> bounds,
      e |-> Zeros(n),
      h |-> Zeros(n - 1),
      h_old |-> Zeros(n - 1),
      eps |-> Ones(n),
      cond |-> Zeros(n),
      energyE |-> <<>>,
      energyH |-> <<>>,
      energy |-> <<>>,
      time |-> R0,
      total_field |-> <<>>,
      material_regions |-> <<>>,
      J |-> [p \in 1..NPOLES |-> [i \in 1..n |-> C0z]],
      material_coefficients |-> <<>>,
      e_old_left |-> Unset,
      e_old_right |-> Unset,
      \* outcome of the most recent call: the exception it raised, and where
      exc |-> "none",
      excAt |-> "none",
      \* record of the most recent step call (not program state)
      trace |-> <<>>,
      step_dt |-> R0,
      e_pre |-> <<>>,
      e_upd |-> <<>>,
      e_inj |-> <<>>,
      J_pre |-> <<>>,
      ewrites |-> <<>>,
      \* step calls started and step calls completed so far (not program state)
      started |-> 0,
      completed |-> 0 ]

NE(s) == Len(s.xE)
Raise(s, name, where) == [s EXCEPT !.exc = name, !.excAt = where]
Ok(s) == [s EXCEPT !.exc = "none", !.excAt = "none"]
Mark(s, tag) == [s EXCEPT !.trace = Append(@, tag)]

----------------------------------------------------------------------------
(* Configuration *)

\* set_initial_condition: self.e[:] = initial_condition[:]
set_initial_condition(s0, ic) ==
    LET s == Ok(s0)
        r == SetSlice(s.e, 0, Len(s.e), Arr(ic))
    IN  IF r.ok THEN [s EXCEPT !.e = r.v]
        ELSE Raise(s, "ValueError", "set_initial_condition")

\* set_permittivity_regions: for each (start_x, end_x, eps_value) in order
RECURSIVE PermLoop(_, _)
PermLoop(s, regions) ==
    IF regions = <<>> THEN s
    ELSE LET r == Head(regions)
             start_idx == SearchSorted(s.xE, r[1])
             end_idx == SearchSorted(s.xE, r[2])
         IN  PermLoop([s EXCEPT !.eps = FillSlice(@, start_idx, end_idx, r[3])],
                      Tail(regions))
set_permittivity_regions(s, regions) == PermLoop(Ok(s), regions)

\* set_conductivity_regions: for each (start_x, end_x, cond_value) in order
RECURSIVE CondLoop(_, _)
CondLoop(s, regions) ==
    IF regions = <<>> THEN s
    ELSE LET r == Head(regions)
             start_idx == SearchSorted(s.xE, r[1])
             end_idx == SearchSorted(s.xE, r[2])
         IN  CondLoop([s EXCEPT !.cond = FillSlice(@, start_idx, end_idx, r[3])],
                      Tail(regions))
set_conductivity_regions(s, regions) == CondLoop(Ok(s), regions)

\* The loop of set_material_region over (start_x, end_x, Einf, cond_value).
RECURSIVE MaterialLoop(_, _)
MaterialLoop(s, regions) ==
    IF regions = <<>> THEN s
    ELSE LET r == Head(regions)
             start_idx == SearchSorted(s.xE, r[1])
             end_idx == SearchSorted(s.xE, r[2])
         IN  MaterialLoop([s EXCEPT !.eps = FillSlice(@, start_idx, end_idx, r[3]),
                                    !.cond = FillSlice(@, start_idx, end_idx, r[4])],
                          Tail(regions))

\* The region whose Einf and cond_value feed the coefficients: the loop
\* variables keep the values of the last iteration.
CoefficientRegion(regions) == regions[Len(regions)]

\* k_mat, beta_mat, den_mat, coef_mat for (Einf, cond_value, dt).
Coefficients(Einf, cond_value, dt) ==
    LET half == RDiv(dt, R2)
        one_minus == [p \in 1..NPOLES |-> CSub(C1z, CScale(a_silver[p], half))]
        k_mat == [p \in 1..NPOLES |->
                    CDiv(CAdd(C1z, CScale(a_silver[p], half)), one_minus[p])]
        beta_mat == [p \in 1..NPOLES |->
                    CDiv(CScale(c_silver[p], RMul(EPS0, dt)), one_minus[p])]
        aux == RAdd(RMul(RMul(R2, EPS0), Einf),
                    RSum([p \in 1..NPOLES |-> RMul(R2, CReal(beta_mat[p]))]))
        den_mat == RAdd(aux, RMul(cond_value, dt))
        num_mat == RSub(aux, RMul(cond_value, dt))
    IN  <<k_mat, beta_mat, den_mat, RDiv(num_mat, den_mat)>>

set_material_region(s0, regions, dt) ==
    LET s1 == MaterialLoop([Ok(s0) EXCEPT !.material_regions = regions], regions)
    IN  IF regions = <<>>
        THEN \* Einf is unbound after an empty loop
             Raise(s1, "UnboundLocalError", "set_material_region")
        ELSE LET r == CoefficientRegion(regions)
             IN  [s1 EXCEPT !.material_coefficients = Coefficients(r[3], r[4], dt)]

\* add_totalfield: np.where(self.xE > xs)[0][0]
add_totalfield(s0, xs, sourceFunction) ==
    LET s == Ok(s0)
        above == {i \in 0..(NE(s) - 1) : RLess(xs, s.xE[i + 1])}
    IN  IF above = {} THEN Raise(s, "IndexError", "add_totalfield")
        ELSE LET isource == CHOOSE i \in above : \A j \in above : i <= j
             IN  [s EXCEPT !.total_field = @ \o <<isource, sourceFunction>>]

----------------------------------------------------------------------------
(* FDTD1D.step(dt), phase by phase.  Each phase takes the instance as the  *)
(* previous phase left it; a phase that raises leaves the instance as it   *)
(* was at the raise, and the phases after a raise do not run.              *)

\* An exception is propagating: the statements that follow do not run.
Raised(s) == s.exc # "none"

\* Lines 111-114: the two snapshots and the H update over the full range.
StepH(s, dt) ==
    LET n == NE(s)
        de == Bin(RSub, Arr(Slice(s.e, 1, n)), Arr(Slice(s.e, 0, -1)))
        f == RDiv(RDiv(dt, s.dx), MU0)
        hn == Bin(RSub, Arr(s.h), Map(LAMBDA x : RMul(f, x), de))
    IN  Mark([s EXCEPT !.e_old_left = s.e[2],
                       !.e_old_right = s.e[n - 1],
                       !.h = hn.v], "H")

\* Lines 116-119: H-side injection at total_field[0] with total_field[1].
StepSourceH(s) ==
    IF Raised(s) \/ s.total_field = <<>> THEN s
    ELSE LET isource == s.total_field[1]
             sourcefunction == s.total_field[2]
         IN  IF isource >= Len(s.h)
             THEN Raise(s, "IndexError", "sourceH")
             ELSE Mark([s EXCEPT !.h[isource + 1] =
                          RAdd(@, Waveform(sourcefunction, s.xH[isource + 1], s.time))],
                       "sourceH")

\* Lines 121 and 158: self.time += dt/2
HalfTick(s, dt) ==
    IF Raised(s) THEN s ELSE Mark([s EXCEPT !.time = RAdd(@, RDiv(dt, R2))], "tick")

\* The non-dispersive right-hand side for e[a:b], with the two H slices
\* hA - hB of the difference (lines 134-136, 148-151, 153).
NonDispersive(s, dt, a, b, hA, hB) ==
    LET epsS == Arr(Slice(s.eps, a, b))
        condS == Arr(Slice(s.cond, a, b))
        eS == Arr(Slice(s.e, a, b))
        eps_dt == Map(LAMBDA x : RDiv(x, dt), epsS)
        cond_2 == Map(LAMBDA x : RDiv(x, R2), condS)
        lead == Map(LAMBDA x : RDiv(R1, x), Bin(RAdd, eps_dt, cond_2))
        keep == Bin(RMul, Bin(RSub, eps_dt, cond_2), eS)
        curl == Map(LAMBDA x : RMul(RDiv(R1, s.dx), x), Bin(RSub, Arr(hA), Arr(hB)))
    IN  Bin(RMul, lead, Bin(RSub, keep, curl))

\* Record which E-nodes an assignment to e[a:b] wrote, and by which formula.
Wrote(s, a, b, tag) ==
    LET idx == SliceIdx(NE(s), a, b)
    IN  [s EXCEPT !.ewrites = [i \in 1..NE(s) |->
                                 IF (i - 1) \in idx THEN Append(@[i], tag) ELSE @[i]]]

\* e[a:b] = val, or the ValueError of a shape mismatch.
AssignE(s, a, b, val, tag) ==
    LET r == SetSlice(s.e, a, b, val)
    IN  IF r.ok THEN Wrote([s EXCEPT !.e = r.v], a, b, tag)
        ELSE Raise(s, "ValueError", "updateE")

\* Line 153: the plain update of the interior nodes.
UpdateEPlain(s, dt) ==
    LET n == NE(s)
    IN  AssignE(s, 1, -1,
                NonDispersive(s, dt, 1, -1, Slice(s.h, 1, n), Slice(s.h, 0, -1)),
                "plain")

\* Lines 125-126: the extent of the region the stepper consults.
ActiveRegion(s) == s.material_regions[1]
iE_in(s) == SearchSorted(s.xE, ActiveRegion(s)[1])
iE_out(s) == SearchSorted(s.xE, ActiveRegion(s)[2])

\* Lines 134-136: left of the dispersive material.
UpdateELeft(s, dt) ==
    LET i == iE_in(s)
    IN  AssignE(s, 1, i,
                NonDispersive(s, dt, 1, i, Slice(s.h, 1, i), Slice(s.h, 0, i - 1)),
                "plain")

\* Lines 138-140: Jsum over the poles, from J as it stands.
JsumOf(s) ==
    LET k_mat == s.material_coefficients[1]
    IN  [i \in 1..NE(s) |->
           RSum([p \in 1..NPOLES |-> CReal(CMul(CAdd(C1z, k_mat[p]), s.J[p][i]))])]

\* Line 142: inside the dispersive material.
UpdateEInside(s, dt) ==
    LET i == iE_in(s)
        o == iE_out(s)
        den_mat == s.material_coefficients[3]
        coef_mat == s.material_coefficients[4]
        dh == Bin(RSub, Arr(Slice(s.h, i, o)), Arr(Slice(s.h, i - 1, o - 1)))
        curl == Map(LAMBDA x : RDiv(RNeg(x), s.dx), dh)
        drive == Bin(RSub, curl, Arr(Slice(JsumOf(s), i, o)))
        scaled == Map(LAMBDA x : RMul(RDiv(RMul(R2, dt), den_mat), x), drive)
        val == Bin(RAdd, Map(LAMBDA x : RMul(coef_mat, x), Arr(Slice(s.e, i, o))), scaled)
    IN  IF Raised(s) THEN s ELSE AssignE(s, i, o, val, "dispersive")

\* Lines 144-145: the auxiliary currents over the full grid, from self.e as
\* it stands at this point and e_old, the copy taken at line 132.
UpdateJ(s, dt) ==
    LET k_mat == s.material_coefficients[1]
        beta_mat == s.material_coefficients[2]
    IN  IF Raised(s) THEN s
        ELSE [s EXCEPT !.J = [p \in 1..NPOLES |-> [i \in 1..NE(s) |->
                CAdd(CMul(k_mat[p], s.J[p][i]),
                     CScale(beta_mat[p], RDiv(RSub(s.e[i], s.e_pre[i]), dt)))]]]

\* Lines 148-151: right of the dispersive material.
UpdateERight(s, dt) ==
    LET o == iE_out(s)
    IN  IF Raised(s) THEN s
        ELSE AssignE(s, o, -1,
                     NonDispersive(s, dt, o, -1, Slice(s.h, o, Len(s.h)), Slice(s.h, o - 1, -1)),
                     "plain")

\* Lines 123-151: the dispersive path, in the order of the source.
UpdateEDispersive(s, dt) ==
    UpdateERight(UpdateJ(UpdateEInside(UpdateELeft(s, dt), dt), dt), dt)

\* The E update is done: the E it produced is recorded (not program state).
UpdatedE(s) == IF Raised(s) THEN s ELSE Mark([s EXCEPT !.e_upd = s.e], "E")

\* Lines 123-153.
UpdateE(s, dt) ==
    IF Raised(s) THEN s
    ELSE UpdatedE(IF s.material_regions # <<>> THEN UpdateEDispersive(s, dt)
                                               ELSE UpdateEPlain(s, dt))

\* Lines 155-156: E-side injection.
StepSourceE(s) ==
    IF Raised(s) \/ s.total_field = <<>> THEN s
    ELSE LET isource == s.total_field[1]
             sourcefunction == s.total_field[2]
         IN  Mark([s EXCEPT !.e[isource + 1] =
                      RAdd(@, Waveform(sourcefunction, s.xE[isource + 1], s.time))],
                  "sourceE")
\* The injection is done: the E it leaves is recorded.
Injected(s) == IF Raised(s) THEN s ELSE [s EXCEPT !.e_inj = s.e]

BoundaryTokens == {"pec", "mur", "pmc", "periodic"}
MurFactor(s, dt) == RDiv(RSub(RMul(C0, dt), s.dx), RAdd(RMul(C0, dt), s.dx))

\* A periodic left edge fed from the start-of-step snapshot.
PeriodicLeftFromSnapshot(s) == s.e_old_right

\* The periodic copies (lines 168 and 180).
PeriodicLeft(s) == s.e[NE(s) - 1]
PeriodicRight(s) == s.e[2]

\* Lines 160-170.
BoundaryLeft(s, dt) ==
    LET b == s.bounds[1]
    IN  IF Raised(s) THEN s
        ELSE IF b = "pec" THEN Mark([s EXCEPT !.e[1] = R0], "bcLeft")
        ELSE IF b = "mur" THEN
            Mark([s EXCEPT !.e[1] =
                    RAdd(s.e_old_left, RMul(MurFactor(s, dt), RSub(s.e[2], s.e[1])))],
                 "bcLeft")
        ELSE IF b = "pmc" THEN
            Mark([s EXCEPT !.e[1] =
                    RSub(s.e[1], RMul(RDiv(RDiv(RMul(R2, dt), s.dx), EPS0), s.h[1]))],
                 "bcLeft")
        ELSE IF b = "periodic" THEN Mark([s EXCEPT !.e[1] = PeriodicLeft(s)], "bcLeft")
        ELSE Raise(s, "ValueError", "bcLeft")

\* A right edge that falls back to PEC on an unknown token.
BoundaryRightLenient(s, dt) ==
    LET b == s.bounds[2]
        n == NE(s)
    IN  IF Raised(s) THEN s
        ELSE IF b = "mur" THEN
            Mark([s EXCEPT !.e[n] =
                    RAdd(s.e_old_right, RMul(MurFactor(s, dt), RSub(s.e[n - 1], s.e[n])))],
                 "bcRight")
        ELSE IF b = "pmc" THEN
            Mark([s EXCEPT !.e[n] =
                    RAdd(s.e[n], RMul(RDiv(RDiv(RMul(R2, dt), s.dx), EPS0), s.h[n - 1]))],
                 "bcRight")
        ELSE IF b = "periodic" THEN Mark([s EXCEPT !.e[n] = PeriodicRight(s)], "bcRight")
        ELSE Mark([s EXCEPT !.e[n] = R0], "bcRight")

\* Lines 172-182.
BoundaryRight(s, dt) ==
    LET b == s.bounds[2]
        n == NE(s)
    IN  IF Raised(s) THEN s
        ELSE IF b = "pec" THEN Mark([s EXCEPT !.e[n] = R0], "bcRight")
        ELSE IF b = "mur" THEN
            Mark([s EXCEPT !.e[n] =
                    RAdd(s.e_old_right, RMul(MurFactor(s, dt), RSub(s.e[n - 1], s.e[n])))],
                 "bcRight")
        ELSE IF b = "pmc" THEN
            Mark([s EXCEPT !.e[n] =
                    RAdd(s.e[n], RMul(RDiv(RDiv(RMul(R2, dt), s.dx), EPS0), s.h[n - 1]))],
                 "bcRight")
        ELSE IF b = "periodic" THEN Mark([s EXCEPT !.e[n] = PeriodicRight(s)], "bcRight")
        ELSE Raise(s, "ValueError", "bcRight")

\* np.dot(a, w * b) with scalar factor c
Dot(a, c, w, b) == RSum([i \in 1..Len(a) |-> RMul(a[i], RMul(RMul(c, w[i]), b[i]))])

\* An energy log that skips the magnetic entry.
EnergyLogDropsH(s) ==
    LET eE == RMul(RDiv(R1, R2), Dot(s.e, s.dx, s.eps, s.e))
    IN  IF Raised(s) THEN s
        ELSE Mark([s EXCEPT !.energyE = Append(@, eE),
                            !.energy = Append(@, eE),
                            !.h_old = s.h], "energy")

\* Lines 185-188: the three appends, then h_old := h.
EnergyLog(s) ==
    LET half == RDiv(R1, R2)
        eE == RMul(half, Dot(s.e, s.dx, s.eps, s.e))
        eH == RMul(half, Dot(s.h_old, RMul(s.dx, MU0), Ones(Len(s.h)), s.h))
    IN  IF Raised(s) THEN s
        ELSE Mark([s EXCEPT !.energyE = Append(@, eE),
                            !.energyH = Append(@, eH),
                            !.energy = Append(@, RAdd(eE, eH)),
                            !.h_old = s.h], "energy")

\* The call is entered: what the properties need of it is recorded (not
\* program state).
Enter(s0, dt) ==
    [Ok(s0) EXCEPT !.trace = <<>>, !.step_dt = dt, !.e_pre = s0.e,
                   !.e_upd = <<>>, !.e_inj = <<>>, !.J_pre = s0.J,
                   !.ewrites = [i \in 1..NE(s0) |-> <<>>],
                   !.started = @ + 1]
\* The call returns normally (not program state).
Return(s) == IF Raised(s) THEN s ELSE [s EXCEPT !.completed = @ + 1]

\* Lines 110-188, in the order of the source, innermost first.
step(s0, dt) ==
    Return(EnergyLog(BoundaryRight(BoundaryLeft(HalfTick(Injected(StepSourceE(
        UpdateE(HalfTick(StepSourceH(StepH(Enter(s0, dt), dt)), dt), dt))),
        dt), dt), dt)))

\* Lines 207-212: n_steps = int(Tf / dt), then the loop, which an exception
\* of step leaves.
RunCount(Tf, dt) == PyInt(RDiv(Tf, dt))
RECURSIVE RunLoop(_, _, _)
RunLoop(s, n, dt) ==
    IF n <= 0 \/ Raised(s) THEN s ELSE RunLoop(step(s, dt), n - 1, dt)
run_until(s, Tf, dt) == RunLoop(Ok(s), RunCount(Tf, dt), dt)

----------------------------------------------------------------------------
(* Inputs explored *)

Half == RDiv(R1, R2)
\* Time steps: dt = 0.5*dx/C0 as in the driver, and the Courant limit dx/C0.
DtSet == {Half, R1}
\* End times of run_until: Tf/dt is -1/2 or -1/4 for the first, 2 or 1 for
\* the second.
TfSet == {RDiv(R1, RInt(-4)), R1}

GridSizes == {MaxN}
\* The four policies, alone and mixed, and an invalid token on either edge.
BoundPairs == {<<"pec", "pec">>, <<"mur", "pmc">>, <<"pmc", "mur">>,
               <<"periodic", "periodic">>, <<"abc", "pec">>, <<"mur", "abc">>}

\* e = 0, 1, 0, 1, ...: every second difference is non-zero.
InitialConditions(n) == {[i \in 1..n |-> RInt((i - 1) % 2)]}

\* (start_x, end_x, value) lists: two overlapping ranges; and a list of a
\* range with start > end, a range below the grid and a range above it.
RangeLists(n, v) ==
    { << <<RInt(0), RInt(3), v>>, <<RInt(2), RInt(n - 1), RMul(R2, v)>> >>,
      << <<RInt(3), RInt(1), v>>, <<RInt(-2), RInt(-1), v>>,
         <<RInt(n), RInt(n + 1), v>> >> }

\* (start_x, end_x, Einf, cond_value) lists: one interior region, two regions,
\* a region from the left edge, a region past the right edge, start > end.
MaterialLists(n) ==
    { << <<RInt(2), RInt(3), R2, R0>> >>,
      << <<RInt(2), RInt(3), R2, R0>>, <<RInt(3), RInt(n - 1), RInt(4), R0>> >>,
      << <<RInt(0), RInt(2), R2, R0>> >>,
      << <<RInt(2), RInt(n), R2, R0>> >>,
      << <<RInt(3), RInt(2), R2, R0>> >> }

\* (xs, sourceFunction): left of the grid, inside, in the last cell, on the
\* last node.
Sources(n) ==
    { <<RInt(-1), "time">>, <<RInt(1), "time">>, <<RInt(1), "zero">>,
      <<RInt(n - 2), "zero">>, <<RInt(n - 1), "time">> }

----------------------------------------------------------------------------
(* The state machine: one instance driven by a caller that configures it   *)
(* and then runs it, and two reference instances that receive the same     *)
(* calls except, for noSource, the add_totalfield calls and, for           *)
(* firstOnly, every region of set_material_region but the first.           *)

VARIABLES sim, noSource, firstOnly, nconfig, nexec, lastCall
vars == <<sim, noSource, firstOnly, nconfig, nexec, lastCall>>

NoCall == [op |-> "none"]
\* The most recent call: its arguments and what the instance held before it.
Call(op, args) ==
    [op |-> op, args |-> args,
     log |-> <<sim.energyE, sim.energyH, sim.energy>>,
     time |-> sim.time, started |-> sim.started, completed |-> sim.completed,
     eps |-> sim.eps, cond |-> sim.cond, total_field |-> sim.total_field]

Init ==
    /\ \E n \in GridSizes, b \in BoundPairs :
          /\ sim = FDTD1D(GridOf(n), b)
          /\ noSource = FDTD1D(GridOf(n), b)
          /\ firstOnly = FDTD1D(GridOf(n), b)
    /\ nconfig = 0
    /\ nexec = 0
    /\ lastCall = NoCall

CanConfigure == nconfig < MaxConfig /\ nexec = 0

\* The instances, and the results of one call on each of them, by index.
Instance(k) == <<sim, noSource, firstOnly>>[k]
\* The three instances receive the same call (equal instances get equal
\* results: the call is a function of the instance and its arguments).
CallAll(results) ==
    /\ sim' = results[1]
    /\ noSource' = IF noSource = sim THEN sim' ELSE results[2]
    /\ firstOnly' = IF firstOnly = sim THEN sim'
                    ELSE IF firstOnly = noSource THEN noSource' ELSE results[3]
\* The reference instance without a source is left out of the call.
CallButNoSource(results) ==
    /\ sim' = results[1]
    /\ firstOnly' = IF firstOnly = sim THEN sim' ELSE results[3]
    /\ UNCHANGED noSource
\* The reference instance of the first region receives its own call.
CallButFirstOnly(results, own) ==
    /\ sim' = results[1]
    /\ noSource' = IF noSource = sim THEN sim' ELSE results[2]
    /\ firstOnly' = own

SetInitialCondition ==
    /\ CanConfigure
    /\ \E ic \in InitialConditions(NE(sim)) :
          /\ CallAll([k \in 1..3 |-> set_initial_condition(Instance(k), ic)])
          /\ lastCall' = Call("set_initial_condition", <<ic>>)
    /\ nconfig' = nconfig + 1
    /\ UNCHANGED nexec

SetPermittivityRegions ==
    /\ CanConfigure
    /\ \E regions \in RangeLists(NE(sim), R2) :
          /\ CallAll([k \in 1..3 |-> set_permittivity_regions(Instance(k), regions)])
          /\ lastCall' = Call("set_permittivity_regions", <<regions>>)
    /\ nconfig' = nconfig + 1
    /\ UNCHANGED nexec

SetConductivityRegions ==
    /\ CanConfigure
    /\ \E regions \in RangeLists(NE(sim), RInt(4)) :
          /\ CallAll([k \in 1..3 |-> set_conductivity_regions(Instance(k), regions)])
          /\ lastCall' = Call("set_conductivity_regions", <<regions>>)
    /\ nconfig' = nconfig + 1
    /\ UNCHANGED nexec

\* sim and noSource receive the list, firstOnly its first region alone.
SetMaterialRegion ==
    /\ CanConfigure
    /\ \E regions \in MaterialLists(NE(sim)), dt \in DtSet :
          /\ CallButFirstOnly([k \in 1..3 |-> set_material_region(Instance(k), regions, dt)],
                              set_material_region(firstOnly, <<regions[1]>>, dt))
          /\ lastCall' = Call("set_material_region", <<regions, dt>>)
    /\ nconfig' = nconfig + 1
    /\ UNCHANGED nexec

AddTotalField ==
    /\ CanConfigure
    /\ \E src \in Sources(NE(sim)) :
          /\ CallButNoSource([k \in 1..3 |-> add_totalfield(Instance(k), src[1], src[2])])
          /\ lastCall' = Call("add_totalfield", src)
    /\ nconfig' = nconfig + 1
    /\ UNCHANGED nexec

Step ==
    /\ nexec < MaxSteps
    /\ \E dt \in DtSet :
          /\ CallAll([k \in 1..3 |-> step(Instance(k), dt)])
          /\ lastCall' = Call("step", <<dt>>)
    /\ nexec' = nexec + 1
    /\ UNCHANGED nconfig

\* A call of run_until counts for the steps it asks for, and for one step
\* when it asks for none.
RunUntil ==
    /\ \E Tf \in TfSet, dt \in DtSet :
          /\ nexec + Max(1, RunCount(Tf, dt)) <= MaxSteps
          /\ CallAll([k \in 1..3 |-> run_until(Instance(k), Tf, dt)])
          /\ lastCall' = Call("run_until", <<Tf, dt>>)
          /\ nexec' = nexec + Max(1, RunCount(Tf, dt))
    /\ UNCHANGED nconfig

Next ==
    \/ SetInitialCondition
    \/ SetPermittivityRegions
    \/ SetConductivityRegions
    \/ SetMaterialRegion
    \/ AddTotalField
    \/ Step
    \/ RunUntil

Spec == Init /\ [][Next]_vars

----------------------------------------------------------------------------
(* Vocabulary of the properties *)

ConfigOps == {"set_initial_condition", "set_permittivity_regions",
              "set_conductivity_regions", "set_material_region", "add_totalfield"}
Called(op) == lastCall.op = op
Returned == sim.exc = "none"

IsPrefix(a, b) == Len(a) <= Len(b) /\ SubSeq(b, 1, Len(a)) = a
Count(seq, tag) == Cardinality({i \in 1..Len(seq) : seq[i] = tag})
Positions(seq, tag) == {i \in 1..Len(seq) : seq[i] = tag}

\* The most recent call made at least one step call (sim.trace is the last).
StepsRan == lastCall.op \in {"step", "run_until"} /\ sim.started > lastCall.started

\* The most recent call ran at least one step, and its last step completed.
StepCompleted ==
    /\ Returned
    /\ Called("step") \/ (Called("run_until") /\ sim.completed > lastCall.completed)

ValidBounds(s) == s.bounds[1] \in BoundaryTokens /\ s.bounds[2] \in BoundaryTokens

\* The first and the last E-coordinate.
First(s) == s.xE[1]
Last(s) == s.xE[NE(s)]

\* What stepping leaves observable of an instance.
Fields(s) == <<s.e, s.h, s.J>>
Evolution(s) == <<s.e, s.h, s.J, s.time, s.energyE, s.energyH, s.energy, s.exc>>

----------------------------------------------------------------------------
(* C1: the energy log *)

LogLengths ==
    /\ Len(sim.energyE) = sim.completed
    /\ Len(sim.energyH) = sim.completed
    /\ Len(sim.energy) = sim.completed
LogAppendOnly ==
    lastCall.op # "none" =>
        /\ IsPrefix(lastCall.log[1], sim.energyE)
        /\ IsPrefix(lastCall.log[2], sim.energyH)
        /\ IsPrefix(lastCall.log[3], sim.energy)
Quotient == RDiv(lastCall.args[1], lastCall.args[2])
StepCallsMade == sim.started - lastCall.started
EntriesAdded == Len(sim.energy) - Len(lastCall.log[3])

\* C1 as stated: the three sequences have the length of the completed step
\* calls, no call removes or rewrites an entry, and every call
\* run_until(Tf, dt) makes exactly floor(Tf/dt) step calls and lengthens the
\* sequences by floor(Tf/dt).
C1_AsStated ==
    /\ LogLengths
    /\ LogAppendOnly
    /\ Called("run_until") =>
          /\ StepCallsMade = Floor(Quotient)
          /\ EntriesAdded = Floor(Quotient)

\* C1, amended: the three sequences have the length of the completed step
\* calls, no call removes or rewrites an entry, and every call
\* run_until(Tf, dt) that returns normally has made exactly floor(Tf/dt) step
\* calls when Tf/dt >= 0 and none when Tf/dt < 0, and has lengthened the
\* sequences by that number.
C1_EnergyLog ==
    /\ LogLengths
    /\ LogAppendOnly
    /\ (Called("run_until") /\ Returned) =>
          LET expected == IF RLeq(R0, Quotient) THEN Floor(Quotient) ELSE 0
          IN  StepCallsMade = expected /\ EntriesAdded = expected

\* A call of run_until has returned after two steps, each of which appended
\* its entry.
C1_Witness ==
    /\ Called("run_until") /\ Returned
    /\ EntriesAdded = 2
    /\ Len(sim.energy) >= 2

----------------------------------------------------------------------------
(* C2: unrecognised boundary tokens *)

\* C2: on an instance with an unrecognised left or right token, the token
\* makes no configuration call fail (the one configuration call that fails is
\* add_totalfield at a position with no E-coordinate above it, which fails
\* whatever the tokens); every step call fails, and one that reaches the
\* boundary conditions fails there with ValueError at the first unrecognised
\* edge; no step completes and no energy entry is ever appended; run_until
\* asking for at least one step does not return normally.
C2_UnknownBoundary ==
    ~ValidBounds(sim) =>
        /\ (lastCall.op \in ConfigOps /\ ~Returned) =>
              /\ Called("add_totalfield") /\ sim.exc = "IndexError"
              /\ RLeq(Last(sim), lastCall.args[1])
        /\ sim.completed = 0 /\ sim.energyE = <<>> /\ sim.energyH = <<>> /\ sim.energy = <<>>
        /\ Called("step") => ~Returned
        /\ (Called("run_until") /\ RunCount(lastCall.args[1], lastCall.args[2]) >= 1)
              => ~Returned
        /\ (StepsRan /\ Count(sim.trace, "tick") = 2) =>
              /\ sim.exc = "ValueError"
              /\ sim.excAt = IF sim.bounds[1] \notin BoundaryTokens THEN "bcLeft"
                                                                    ELSE "bcRight"

\* A step applied a valid left edge and failed on the unrecognised right one.
C2_Witness ==
    /\ sim.bounds[2] \notin BoundaryTokens
    /\ Called("step")
    /\ sim.exc = "ValueError" /\ sim.excAt = "bcRight"
    /\ Count(sim.trace, "bcLeft") = 1

----------------------------------------------------------------------------
(* C3: the simulation clock *)

\* The trace of one step call holds exactly two clock advances, the first
\* between the H update and the E update, the second after the E update and
\* before the boundary conditions.
TwoHalfTicks(tr) ==
    /\ Count(tr, "tick") = 2
    /\ \E i, j \in Positions(tr, "tick") :
          /\ i < j
          /\ \A a \in Positions(tr, "H") \cup Positions(tr, "sourceH") : a < i
          /\ \A b \in Positions(tr, "E") : i < b /\ b < j
          /\ Count(tr, "E") = 1
          /\ \A c \in Positions(tr, "bcLeft") \cup Positions(tr, "bcRight") : j < c

\* C3 as stated: every step call advances the clock by dt/2 exactly twice,
\* around the E update; a completed step advances it by exactly dt; no call
\* decreases the clock.
C3_AsStated ==
    /\ StepsRan => TwoHalfTicks(sim.trace)
    /\ (Called("step") /\ Returned) => sim.time = RAdd(lastCall.time, lastCall.args[1])
    /\ lastCall.op # "none" => RLeq(lastCall.time, sim.time)

----------------------------------------------------------------------------
(* C4: periodic boundaries *)

Periodic(s) == s.bounds = <<"periodic", "periodic">>

\* C4 as stated: after a completed step with periodic bounds, E[0] is the
\* start-of-step snapshot of E[N-2] and E[N-1] the start-of-step snapshot of
\* E[1].
C4_AsStated ==
    (Periodic(sim) /\ StepCompleted) =>
        /\ sim.e[1] = sim.e_old_right
        /\ sim.e[NE(sim)] = sim.e_old_left

\* C4, amended: after a completed step with periodic bounds, E[0] is the
\* value of E[N-2] and E[N-1] the value of E[1] as the E update and the
\* source injection of that step left them.
C4_Periodic ==
    (Periodic(sim) /\ StepCompleted) =>
        /\ sim.e[1] = sim.e_inj[NE(sim) - 1]
        /\ sim.e[NE(sim)] = sim.e_inj[2]

\* A periodic step completed in which the E update changed E[N-2].
C4_Witness ==
    /\ Periodic(sim) /\ StepCompleted
    /\ sim.e_inj[NE(sim) - 1] # sim.e_old_right

----------------------------------------------------------------------------
(* C5: a source with the zero waveform *)

\* C5 as stated: an instance whose registered source has the zero waveform
\* and the instance that received the same calls but no add_totalfield hold
\* the same E, H, J, clock and energy log, and their step calls succeed or
\* fail alike.
C5_AsStated ==
    (sim.total_field # <<>> /\ sim.total_field[2] = "zero"
        /\ lastCall.op \in {"step", "run_until"})
    => Evolution(sim) = Evolution(noSource)

----------------------------------------------------------------------------
(* C6: degenerate and out-of-domain ranges *)

\* start > end, or both ends below the first or above the last E-coordinate
Degenerate(r) ==
    \/ RLess(r[2], r[1])
    \/ RLess(r[1], First(sim)) /\ RLess(r[2], First(sim))
    \/ RLess(Last(sim), r[1]) /\ RLess(Last(sim), r[2])

\* C6 as stated: set_permittivity_regions and set_conductivity_regions given
\* only such ranges raise nothing and leave eps and cond as they were, and
\* add_totalfield given a position below the first or at or above the last
\* E-coordinate raises nothing.
C6_AsStated ==
    /\ (lastCall.op \in {"set_permittivity_regions", "set_conductivity_regions"}
          /\ \A i \in 1..Len(lastCall.args[1]) : Degenerate(lastCall.args[1][i]))
       => (Returned /\ sim.eps = lastCall.eps /\ sim.cond = lastCall.cond)
    /\ (Called("add_totalfield")
          /\ (RLess(lastCall.args[1], First(sim)) \/ RLeq(Last(sim), lastCall.args[1])))
       => Returned

----------------------------------------------------------------------------
(* C7: several dispersive regions *)

\* C7 as stated: after any step, an instance configured with a list of
\* regions holds the same E, H and J as the instance configured with the
\* first region alone, and steps with the same k, beta, denom and coef.
C7_AsStated ==
    (sim.material_regions # <<>> /\ lastCall.op \in {"step", "run_until"})
    => /\ Fields(sim) = Fields(firstOnly)
       /\ sim.material_coefficients = firstOnly.material_coefficients

----------------------------------------------------------------------------
(* C8: the auxiliary currents *)

\* C8 as stated: a completed step of the dispersive path leaves, for every
\* pole p and node i, J_p[i] = k_p*J_p_prev[i] + beta_p*(E_new[i] - E_old[i])/dt
\* with E_old the start-of-step E and E_new the E the E update of that step
\* produced.
C8_AsStated ==
    (Called("step") /\ Returned /\ sim.material_regions # <<>>) =>
        \A p \in 1..NPOLES : \A i \in 1..NE(sim) :
            sim.J[p][i] =
                CAdd(CMul(sim.material_coefficients[1][p], sim.J_pre[p][i]),
                     CScale(sim.material_coefficients[2][p],
                            RDiv(RSub(sim.e_upd[i], sim.e_pre[i]), sim.step_dt)))

----------------------------------------------------------------------------
(* C9: the partition of the E update *)

\* The formula C9 assigns to Python node i, as the list of writes it gets.
ExpectedWrites(s, i) ==
    IF i = 0 \/ i = NE(s) - 1 THEN <<>>
    ELSE IF iE_in(s) <= i /\ i < iE_out(s) THEN <<"dispersive">>
    ELSE <<"plain">>

\* C9 as stated: in the dispersive path the E update never fails, and it
\* writes every interior node exactly once, with the dispersive formula when
\* iE_in <= i < iE_out and the non-dispersive one otherwise, and no edge node.
C9_AsStated ==
    (Called("step") /\ sim.material_regions # <<>>) =>
        /\ sim.excAt # "updateE"
        /\ Count(sim.trace, "E") = 1 =>
              \A i \in 0..(NE(sim) - 1) : sim.ewrites[i + 1] = ExpectedWrites(sim, i)

----------------------------------------------------------------------------
(* C10: the source index *)

\* C10 as stated: the index add_totalfield stores is an index of E and of H,
\* no later step fails at an injection, and a further add_totalfield leaves
\* the pair the stepper reads in place.
C10_AsStated ==
    /\ (Called("add_totalfield") /\ Returned) =>
          LET isource == sim.total_field[Len(sim.total_field) - 1]
          IN  /\ 0 <= isource /\ isource < Len(sim.e) /\ isource < Len(sim.h)
              /\ lastCall.total_field # <<>> =>
                    SubSeq(sim.total_field, 1, 2) = SubSeq(lastCall.total_field, 1, 2)
    /\ sim.exc = "IndexError" => sim.excAt \notin {"sourceH", "sourceE"}

====
